---- MODULE Spec2Model ----
(***************************************************************************)
(* AI Health Advisor (src/app.py): a Streamlit script.  The script is run  *)
(* from its first line on every page load and on every click of the form's *)
(* submit button; a run is modelled as the sequence of its blocks, pc      *)
(* being the script's position.  Nothing of a run is kept for the next one *)
(* (the script uses no session state, cache or file), so a new run starts  *)
(* with fresh locals; the counters calls, submissions, validated and the   *)
(* flag failedBefore record the history of the process for the properties. *)
(*                                                                         *)
(* Numbers: BMI is a Python float with one decimal; it is held here in     *)
(* tenths (24.7 is 247).  A Python None is the empty sequence and a value  *)
(* v is <<v>> where the code reads an optional (os.getenv).                *)
(***************************************************************************)
EXTENDS Integers, Sequences, FiniteSets, TLC

VARIABLES
    GEMINI_API_KEY,   \* os.getenv("GEMINI_API_KEY"): <<>> (None) or <<string>>
    pc,               \* position of the script run
    submitted,        \* st.form_submit_button's value in this run
    widgets,          \* the values the form's controls hold in this run
    other,            \* other_activity, diet_other, goals_other (lines 61-115)
    configured,       \* genai.configure / GenerativeModel were executed
    page,             \* the elements this run has put on the page, in order
    spinner,          \* the st.spinner busy indicator is showing
    user_data,        \* the profile mapping, a sequence of <<label, value>>
    prompt,           \* the formatted prompt
    recommendations,  \* response.text
    excMsg,           \* str(e) of the exception caught at line 208
    called,           \* model.generate_content was invoked in this run
    calls,            \* generate_content calls made by the process so far
    submissions,      \* submit clicks so far
    validated,        \* submissions that passed the required-field check
    failedBefore      \* some earlier or current run ended in the except branch

vars == <<GEMINI_API_KEY, pc, submitted, widgets, other, configured, page,
          spinner, user_data, prompt, recommendations, excMsg, called, calls,
          submissions, validated, failedBefore>>

(***************************************************************************)
(* Bounds of the model.                                                    *)
(***************************************************************************)
MaxSubmissions == 2

(***************************************************************************)
(* Control ranges of the form (lines 40-44).                               *)
(***************************************************************************)
AgeMin == 1
HeightMin == 50
HeightMax == 250
WeightMin == 20
WeightMax == 300

None == <<>>

Some(v) == <<v>>

\* The credential test written as "is None": an empty string passes.
TruthyOpt_NoneOnly(o) == o # None

\* Python truthiness of an optional string: None and "" are falsy.
TruthyOpt(o) == o # None /\ o[1] # ""

(***************************************************************************)
(* Pure functions of the script.                                           *)
(***************************************************************************)

\* sep.join(items) of Python.
RECURSIVE Join(_, _)
Join(items, sep) ==
    IF items = <<>> THEN ""
    ELSE IF Len(items) = 1 THEN items[1]
    ELSE items[1] \o sep \o Join(Tail(items), sep)

\* x in list.
In(x, items) == \E i \in DOMAIN items : items[i] = x

\* The "Please specify" text read whether or not "Other" is selected.
OtherText_Always(selected, typed) == typed

\* Lines 61-64, 80-83, 112-115: the free text is read only when "Other" is
\* among the selected options, else it is "".
OtherText(selected, typed) == IF In("Other", selected) THEN typed ELSE ""

\* Lines 143, 146, 153: ", ".join(sel) + (f", {other}" if other else "").
MultiChoiceValue(selected, otherText) ==
    Join(selected, ", ") \o (IF otherText # "" THEN ", " \o otherText ELSE "")

\* The text passed on as it is, without a sentinel.
OrSentinel_Identity(text, sentinel) == text

\* Lines 151, 152, 154: text if text else sentinel.
OrSentinel(text, sentinel) == IF text # "" THEN text ELSE sentinel

\* Heights h for which the binary64 value of (h/100) ** 2 lies above h*h/10000
\* and the quotient weight / that lands just below a value exactly halfway
\* between two tenths; round() then yields the lower tenth.
FloatBelowTie == {56, 80, 160}

\* The quotient cut to one decimal instead of rounded.
BMI_Truncated(weight, height) == (weight * 100000) \div (height * height)

\* Line 139: round(weight / ((height/100) ** 2), 1), in tenths.  Python rounds
\* the binary64 quotient to the nearest tenth; a quotient exactly halfway
\* (representable: 5.25) goes to the even tenth.  On heights 50..250 and
\* weights 20..300 this integer computation returns what CPython returns.
BMI(weight, height) ==
    LET num == weight * 100000
        den == height * height
        q == num \div den
        r == num % den
    IN  IF 2 * r < den THEN q
        ELSE IF 2 * r > den THEN q + 1
        ELSE IF height \in FloatBelowTie THEN q
        ELSE IF q % 2 = 0 THEN q
        ELSE q + 1

\* Lines 134-155: the profile mapping, in insertion order.
UserData(w, o) ==
    << <<"Age", w.age>>,
       <<"Gender", w.gender>>,
       <<"Height (cm)", w.height>>,
       <<"Weight (kg)", w.weight>>,
       <<"BMI", BMI(w.weight, w.height)>>,
       <<"Stress Level", w.stress_level>>,
       <<"Activity Status", w.activity_status>>,
       <<"Activity Frequency", w.activity_frequency>>,
       <<"Activity Types", MultiChoiceValue(w.activity_types, o.other_activity)>>,
       <<"Living Situation", w.living_situation>>,
       <<"Social Support (1-10)", w.social_support>>,
       <<"Diet Preferences", MultiChoiceValue(w.diet_preference, o.diet_other)>>,
       <<"Daily Water Intake", w.daily_water>>,
       <<"Meal Regularity", w.meal_regularity>>,
       <<"Sleep Hours", w.sleep_hours>>,
       <<"Sleep Quality", w.sleep_quality>>,
       <<"Medical Conditions", OrSentinel(w.medical_conditions, "None reported")>>,
       <<"Medications", OrSentinel(w.medications, "None reported")>>,
       <<"Health Goals", MultiChoiceValue(w.health_goals, o.goals_other)>>,
       <<"Additional Information", OrSentinel(w.additional_info, "None provided")>> >>

\* The labels whose values are Python ints, and the one that is a float.
IntLabels == {"Age", "Height (cm)", "Weight (kg)", "Stress Level",
              "Social Support (1-10)", "Sleep Hours"}

FloatLabels == {"BMI"}

\* repr() of a value of the mapping: an int in decimal, the float with its
\* one decimal, a string in single quotes (the texts of the model hold no
\* quote or backslash, which repr would escape).
PyRepr(label, value) ==
    IF label \in IntLabels THEN ToString(value)
    ELSE IF label \in FloatLabels
         THEN ToString(value \div 10) \o "." \o ToString(value % 10)
    ELSE "'" \o value \o "'"

RECURSIVE ItemsRepr(_)
ItemsRepr(items) ==
    IF items = <<>> THEN ""
    ELSE LET it == "'" \o items[1][1] \o "': " \o PyRepr(items[1][1], items[1][2])
         IN  IF Len(items) = 1 THEN it ELSE it \o ", " \o ItemsRepr(Tail(items))

\* str(dict), as the f-string of line 163 interpolates it.
DictRepr(items) == "{" \o ItemsRepr(items) \o "}"

PromptHead ==
    "\n                You are a professional health advisor with expertise in providing personalized health recommendations.\n"
    \o "                Based on the following user health profile, provide detailed, personalized health recommendations.\n"
    \o "                \n"
    \o "                USER HEALTH PROFILE:\n"
    \o "                "

PromptTail ==
    "\n                \n"
    \o "                Please provide recommendations in the following format:\n"
    \o "                1. Summary of Health Status\n"
    \o "                2. Diet Recommendations (specific foods, meal timing, hydration advice)\n"
    \o "                3. Exercise Recommendations (types, frequency, duration based on their current activity level)\n"
    \o "                4. Sleep Improvement Suggestions\n"
    \o "                5. Stress Management Techniques\n"
    \o "                6. Social Health Suggestions\n"
    \o "                7. Additional Personalized Advice (based on their specific conditions/goals)\n"
    \o "                \n"
    \o "                For each section, provide 3-5 specific, actionable recommendations. Be detailed but concise.\n"
    \o "                Ensure all advice is evidence-based and appropriate for their specific health profile.\n"
    \o "                Do not prescribe medications or make specific medical treatment recommendations.\n"
    \o "                If there are serious health concerns, recommend consulting with a healthcare professional.\n"
    \o "                \n"
    \o "                Important: If insufficient information is provided for any section, indicate this and provide general\n"
    \o "                best practices instead.\n"
    \o "                "

\* Lines 158-181.
FormatPrompt(items) == PromptHead \o DictRepr(items) \o PromptTail

\* The required-field check without the test of age.
RequiredMissing_NoAge(w) == w.gender = "" \/ w.height = 0 \/ w.weight = 0

\* The required-field check refusing the smallest age the control admits.
RequiredMissing_AgeOffByOne(w) ==
    w.age <= 1 \/ w.gender = "" \/ w.height = 0 \/ w.weight = 0

\* Line 127: not age or not gender or not height or not weight.
RequiredMissing(w) ==
    w.age = 0 \/ w.gender = "" \/ w.height = 0 \/ w.weight = 0

(***************************************************************************)
(* The page: a sequence of elements.  rows is the table of a dataframe and *)
(* <<>> for every other element.                                           *)
(***************************************************************************)
El(kind, text) == [kind |-> kind, text |-> text, rows |-> <<>>]

Table(items) == [kind |-> "dataframe", text |-> "", rows |-> items]

\* Line 13.
KeyErrorEl ==
    El("error", "GEMINI_API_KEY is not set in the environment variables. Please add it to your .env file.")

\* Lines 27-122: title, introduction and the form with its submit button.
FormPage ==
    << El("title", "AI Health Advisor"),
       El("markdown", "\nThis application provides personalized health recommendations based on your inputs.\nFill out the form below to receive tailored health advice from our AI assistant.\n"),
       El("form", "health_form") >>

\* Line 128.
ValidationErrorEl ==
    El("error", "Please fill in all required fields (Age, Gender, Height, Weight)")

\* Line 188.
SuccessEl == El("success", "Health recommendations generated successfully!")

\* Lines 202-206.
DisclaimerEl ==
    El("info", "\n                **Disclaimer**: These recommendations are generated by AI and should not be considered medical advice. \n                Always consult with qualified healthcare professionals before making significant changes to your health routine, \n                especially if you have existing medical conditions.\n                ")

\* The result view without the disclaimer.
ResultView_NoDisclaimer(items, text) ==
    << SuccessEl,
       El("subheader", "Your Health Profile"),
       Table(items),
       El("subheader", "Your Personalized Health Recommendations"),
       El("markdown", text) >>

\* Lines 188-206: what a successful call puts on the page.
ResultView(items, text) ==
    << SuccessEl,
       El("subheader", "Your Health Profile"),
       Table(items),
       El("subheader", "Your Personalized Health Recommendations"),
       El("markdown", text),
       DisclaimerEl >>

\* Line 209.
ExceptionEl(msg) ==
    El("error", "An error occurred while generating recommendations: " \o msg)

\* Line 210.
RetryEl ==
    El("info", "Please try again later or contact support if the problem persists.")

\* Lines 209-210.
ErrorView(msg) == << ExceptionEl(msg), RetryEl >>

Shows(el) == \E i \in DOMAIN page : page[i] = el

ShowsKind(kind) == \E i \in DOMAIN page : page[i].kind = kind

(***************************************************************************)
(* The values of the form's controls.  BaseWidgets holds what each control *)
(* returns untouched: a number_input its min_value, a selectbox or radio   *)
(* its first option, a slider its value, a multiselect [] and a text "".   *)
(* other_activity_input, diet_other_input and goals_other_input are the    *)
(* texts held by the three "Please specify" inputs.                        *)
(***************************************************************************)
BaseWidgets ==
    [ age |-> AgeMin, gender |-> "Male", height |-> HeightMin, weight |-> WeightMin,
      stress_level |-> 5, activity_status |-> "Inactive",
      activity_frequency |-> "None",
      activity_types |-> <<>>, other_activity_input |-> "",
      living_situation |-> "Alone", social_support |-> 5,
      diet_preference |-> <<>>, diet_other_input |-> "",
      daily_water |-> "Less than 1 liter",
      meal_regularity |-> "Regular meals at set times",
      sleep_hours |-> 7, sleep_quality |-> "Poor",
      medical_conditions |-> "", medications |-> "",
      health_goals |-> <<>>, goals_other_input |-> "",
      additional_info |-> "" ]

\* Age, gender, height, weight as the controls of lines 40-44 admit them.
Demographics ==
    { [age |-> 30, gender |-> "Male", height |-> 180, weight |-> 80],
      [age |-> AgeMin, gender |-> "Prefer not to say", height |-> 200, weight |-> 21] }

\* A multiselect's list with the text of its "Please specify" input.
ActivityChoices ==
    { << <<>>, "" >>, << <<"Walking">>, "" >>, << <<"Walking">>, "Hiking" >>,
      << <<"Other">>, "" >>, << <<"Other">>, "Hiking" >>,
      << <<"Walking", "Other">>, "Hiking" >> }

DietChoices ==
    { << <<>>, "" >>, << <<"Vegan">>, "Halal" >>, << <<"Vegan", "Other">>, "Halal" >> }

GoalChoices ==
    { << <<>>, "" >>, << <<"Better sleep">>, "Run 5k" >>, << <<"Other">>, "Run 5k" >> }

\* medical_conditions, medications, additional_info.
TextChoices ==
    { <<"", "", "">>, <<"asthma", "", "night shifts">>, <<"", "ibuprofen", "">> }

WithChoices(d, a, di, g, t) ==
    [ BaseWidgets EXCEPT
        !.age = d.age, !.gender = d.gender, !.height = d.height, !.weight = d.weight,
        !.activity_types = a[1], !.other_activity_input = a[2],
        !.diet_preference = di[1], !.diet_other_input = di[2],
        !.health_goals = g[1], !.goals_other_input = g[2],
        !.medical_conditions = t[1], !.medications = t[2], !.additional_info = t[3] ]

\* The submissions the form of lines 34-122 can produce (a sample of them).
Forms ==
    { WithChoices(d, a, di, g, t) :
        d \in Demographics, a \in ActivityChoices, di \in DietChoices,
        g \in GoalChoices, t \in TextChoices }

\* Submissions in which a required control may also hand the script a falsy
\* value (0 or ""), the case line 127 tests for.
FalsyDemographics ==
    { [age |-> ag, gender |-> ge, height |-> he, weight |-> we] :
        ag \in {0, 30}, ge \in {"", "Male"}, he \in {0, 180}, we \in {0, 80} }

FalsyForms ==
    { WithChoices(d, a, << <<>>, "" >>, << <<>>, "" >>, t) :
        d \in FalsyDemographics,
        a \in { << <<>>, "" >>, << <<"Other">>, "Hiking" >> },
        t \in { <<"", "", "">>, <<"asthma", "", "night shifts">> } }

\* What the hosted model may do with a prompt: return a text, fail in
\* generate_content, or return a response whose .text raises.
ModelTexts == { "## 1. Summary of Health Status\n..." }

GenerateErrors == { "503 The service is currently unavailable." }

TextErrors == { "Invalid operation: The response.text quick accessor requires the response to contain a valid Part." }

NoOther == [other_activity |-> "", diet_other |-> "", goals_other |-> ""]

(***************************************************************************)
(* The script, block by block.                                             *)
(***************************************************************************)
Init ==
    /\ GEMINI_API_KEY \in {None, Some(""), Some("AIza-test-key")}
    /\ pc = "start"
    /\ submitted = FALSE
    /\ widgets = BaseWidgets
    /\ other = NoOther
    /\ configured = FALSE
    /\ page = <<>>
    /\ spinner = FALSE
    /\ user_data = <<>>
    /\ prompt = ""
    /\ recommendations = ""
    /\ excMsg = ""
    /\ called = FALSE
    /\ calls = 0
    /\ submissions = 0
    /\ validated = 0
    /\ failedBefore = FALSE

\* A run starts at line 1 with nothing of the run before it.
FreshRun ==
    /\ pc' = "start"
    /\ other' = NoOther
    /\ configured' = FALSE
    /\ page' = <<>>
    /\ spinner' = FALSE
    /\ user_data' = <<>>
    /\ prompt' = ""
    /\ recommendations' = ""
    /\ excMsg' = ""
    /\ called' = FALSE

\* Lines 11-17: without a credential, st.error and st.stop; else configure.
CheckKey ==
    /\ pc = "start"
    /\ IF ~TruthyOpt(GEMINI_API_KEY)
       THEN /\ page' = Append(page, KeyErrorEl)
            /\ pc' = "stopped"
            /\ UNCHANGED configured
       ELSE /\ configured' = TRUE
            /\ pc' = "form"
            /\ UNCHANGED page
    /\ UNCHANGED <<GEMINI_API_KEY, submitted, widgets, other, spinner, user_data,
                   prompt, recommendations, excMsg, called, calls, submissions,
                   validated, failedBefore>>

\* Lines 20-125: the page head and the form; the three "Other" texts; then
\* the test of submitted.
RenderForm ==
    /\ pc = "form"
    /\ page' = page \o FormPage
    /\ other' = [ other_activity |->
                      OtherText(widgets.activity_types, widgets.other_activity_input),
                  diet_other |->
                      OtherText(widgets.diet_preference, widgets.diet_other_input),
                  goals_other |->
                      OtherText(widgets.health_goals, widgets.goals_other_input) ]
    /\ pc' = IF submitted THEN "validate" ELSE "done"
    /\ UNCHANGED <<GEMINI_API_KEY, submitted, widgets, configured, spinner,
                   user_data, prompt, recommendations, excMsg, called, calls,
                   submissions, validated, failedBefore>>

\* Lines 127-131: the required-field check; on success the spinner opens.
Validate ==
    /\ pc = "validate"
    /\ IF RequiredMissing(widgets)
       THEN /\ page' = Append(page, ValidationErrorEl)
            /\ pc' = "done"
            /\ UNCHANGED <<validated, spinner>>
       ELSE /\ validated' = validated + 1
            /\ spinner' = TRUE
            /\ pc' = "build"
            /\ UNCHANGED page
    /\ UNCHANGED <<GEMINI_API_KEY, submitted, widgets, other, configured,
                   user_data, prompt, recommendations, excMsg, called, calls,
                   submissions, failedBefore>>

\* Lines 132-155: the profile; the division of line 139 raises on height 0.
BuildProfile ==
    /\ pc = "build"
    /\ IF widgets.height = 0
       THEN /\ excMsg' = "float division by zero"
            /\ pc' = "except"
            /\ UNCHANGED user_data
       ELSE /\ user_data' = UserData(widgets, other)
            /\ pc' = "format"
            /\ UNCHANGED excMsg
    /\ UNCHANGED <<GEMINI_API_KEY, submitted, widgets, other, configured, page,
                   spinner, prompt, recommendations, called, calls, submissions,
                   validated, failedBefore>>

\* Lines 158-181.
CreatePrompt ==
    /\ pc = "format"
    /\ prompt' = FormatPrompt(user_data)
    /\ pc' = "call"
    /\ UNCHANGED <<GEMINI_API_KEY, submitted, widgets, other, configured, page,
                   spinner, user_data, recommendations, excMsg, called, calls,
                   submissions, validated, failedBefore>>

\* Lines 184-185: the one call, and the read of response.text.
GenerateContent ==
    /\ pc = "call"
    /\ calls' = calls + 1
    /\ called' = TRUE
    /\ \/ \E t \in ModelTexts :
            /\ recommendations' = t
            /\ pc' = "render"
            /\ UNCHANGED excMsg
       \/ \E m \in GenerateErrors \cup TextErrors :
            /\ excMsg' = m
            /\ pc' = "except"
            /\ UNCHANGED recommendations
    /\ UNCHANGED <<GEMINI_API_KEY, submitted, widgets, other, configured, page,
                   spinner, user_data, prompt, submissions, validated,
                   failedBefore>>

\* Lines 188-206, and the spinner closes.
RenderResult ==
    /\ pc = "render"
    /\ page' = page \o ResultView(user_data, recommendations)
    /\ spinner' = FALSE
    /\ pc' = "done"
    /\ UNCHANGED <<GEMINI_API_KEY, submitted, widgets, other, configured,
                   user_data, prompt, recommendations, excMsg, called, calls,
                   submissions, validated, failedBefore>>

\* The except branch also showing the profile table.
HandleException_ShowsTable ==
    /\ pc = "except"
    /\ page' = page \o <<Table(user_data)>> \o ErrorView(excMsg)
    /\ spinner' = FALSE
    /\ failedBefore' = TRUE
    /\ pc' = "done"
    /\ UNCHANGED <<GEMINI_API_KEY, submitted, widgets, other, configured,
                   user_data, prompt, recommendations, excMsg, called, calls,
                   submissions, validated>>

\* The except branch re-issuing the call.
HandleException_Retry ==
    /\ pc = "except"
    /\ page' = page \o ErrorView(excMsg)
    /\ failedBefore' = TRUE
    /\ pc' = "call"
    /\ UNCHANGED <<GEMINI_API_KEY, submitted, widgets, other, configured,
                   spinner, user_data, prompt, recommendations, excMsg, called,
                   calls, submissions, validated>>

\* No except branch: the exception ends the script run with a traceback.
HandleException_Uncaught ==
    /\ pc = "except"
    /\ page' = page \o <<El("exception", excMsg)>>
    /\ spinner' = FALSE
    /\ failedBefore' = TRUE
    /\ pc' = "done"
    /\ UNCHANGED <<GEMINI_API_KEY, submitted, widgets, other, configured,
                   user_data, prompt, recommendations, excMsg, called, calls,
                   submissions, validated>>

\* Lines 208-210, and the spinner closes.
HandleException ==
    /\ pc = "except"
    /\ page' = page \o ErrorView(excMsg)
    /\ spinner' = FALSE
    /\ failedBefore' = TRUE
    /\ pc' = "done"
    /\ UNCHANGED <<GEMINI_API_KEY, submitted, widgets, other, configured,
                   user_data, prompt, recommendations, excMsg, called, calls,
                   submissions, validated>>

\* The submit button of line 122 can be clicked when the page shows the form.
CanSubmit == pc = "done" /\ Shows(El("form", "health_form"))

\* A page load: the script runs with submitted = False.
PageLoad ==
    /\ pc \in {"done", "stopped"}
    /\ FreshRun
    /\ submitted' = FALSE
    /\ widgets' = BaseWidgets
    /\ UNCHANGED <<GEMINI_API_KEY, calls, submissions, validated, failedBefore>>

\* A click on "Get Health Recommendations": the script runs with
\* submitted = True and the controls' values.
ClickSubmit(forms) ==
    /\ CanSubmit
    /\ submissions < MaxSubmissions
    /\ FreshRun
    /\ submitted' = TRUE
    /\ \E f \in forms : widgets' = f
    /\ submissions' = submissions + 1
    /\ UNCHANGED <<GEMINI_API_KEY, calls, validated, failedBefore>>

Script ==
    \/ CheckKey
    \/ RenderForm
    \/ Validate
    \/ BuildProfile
    \/ CreatePrompt
    \/ GenerateContent
    \/ RenderResult
    \/ HandleException

Next == Script \/ PageLoad \/ ClickSubmit(Forms)

Spec == Init /\ [][Next]_vars

\* The same program when a required control may hand over a falsy value.
NextFalsy == Script \/ PageLoad \/ ClickSubmit(FalsyForms)

SpecFalsy == Init /\ [][NextFalsy]_vars

\* Line 139 over the whole of the ranges of lines 43-44: a valid submission
\* at the start of the try block, then the profile is built.
InitBMI ==
    /\ GEMINI_API_KEY = Some("AIza-test-key")
    /\ pc = "build"
    /\ submitted = TRUE
    /\ \E h \in HeightMin..HeightMax, w \in WeightMin..WeightMax :
          widgets = [BaseWidgets EXCEPT !.height = h, !.weight = w]
    /\ other = NoOther
    /\ configured = TRUE
    /\ page = FormPage
    /\ spinner = TRUE
    /\ user_data = <<>>
    /\ prompt = ""
    /\ recommendations = ""
    /\ excMsg = ""
    /\ called = FALSE
    /\ calls = 0
    /\ submissions = 1
    /\ validated = 1
    /\ failedBefore = FALSE

NextBMI == BuildProfile

SpecBMI == InitBMI /\ [][NextBMI]_vars

(***************************************************************************)
(* Properties.                                                             *)
(***************************************************************************)

\* The value the profile holds under a label.
ProfileValue(label) ==
    LET i == CHOOSE j \in DOMAIN user_data : user_data[j][1] = label
    IN  user_data[i][2]

\* A required field is absent: the number is 0 or the text is empty.
AbsentRequired ==
    widgets.age = 0 \/ widgets.gender = "" \/ widgets.height = 0 \/ widgets.weight = 0

\* The credential is unset or empty.
KeyAbsent == GEMINI_API_KEY = <<>> \/ GEMINI_API_KEY = <<"">>

\* The run went through the except branch.
CallFailed == excMsg # ""

\* The run's call returned a text.
CallSucceeded == pc = "done" /\ called /\ excMsg = ""

\* C1: generate_content is called in a run only when that run's submission
\* passed the required-field check; a submission with age, gender, height or
\* weight absent builds no profile, no prompt and no recommendations, makes no
\* call, and ends with the form followed by the validation error alone.
C1_NoCallWithoutRequiredFields ==
    /\ called => (submitted /\ ~AbsentRequired)
    /\ (submitted /\ AbsentRequired) =>
          /\ ~called
          /\ pc \in {"start", "form", "validate", "done"}
          /\ user_data = <<>> /\ prompt = "" /\ recommendations = ""
          /\ ~ShowsKind("dataframe") /\ ~ShowsKind("success")
          /\ pc = "done" => page = Append(FormPage, ValidationErrorEl)

C1_Witness ==
    /\ pc = "done" /\ submitted /\ widgets.age = 0 /\ widgets.height # 0
    /\ Shows(ValidationErrorEl) /\ calls = 0 /\ submissions = 1

\* C2: without the credential (unset or empty) the run shows the error and
\* stops: the model is never configured, the form is never on the page, no
\* submission is ever made and no call is ever made.
C2_MissingKeyHalts ==
    KeyAbsent =>
        /\ pc \in {"start", "stopped"}
        /\ ~configured /\ ~ShowsKind("form") /\ ~CanSubmit
        /\ ~submitted /\ submissions = 0 /\ ~called /\ calls = 0
        /\ pc = "stopped" => page = <<KeyErrorEl>>

C2_Witness ==
    pc = "stopped" /\ GEMINI_API_KEY = <<"">> /\ page = <<KeyErrorEl>>

\* C3: when the call fails the page holds, after the form, the error message
\* and the retry hint and neither the table, the success banner, the
\* recommendations nor the disclaimer; and a later run starts with no profile,
\* prompt or recommendations left from the failed one.
C3_FailureShowsErrorOnly ==
    /\ (pc = "done" /\ CallFailed) =>
          /\ page = FormPage \o <<ExceptionEl(excMsg), RetryEl>>
          /\ ~ShowsKind("dataframe") /\ ~ShowsKind("success")
          /\ ~Shows(DisclaimerEl) /\ recommendations = ""
    /\ (failedBefore /\ pc \in {"start", "form", "validate", "build"}) =>
          /\ user_data = <<>> /\ prompt = "" /\ recommendations = ""
          /\ ~ShowsKind("dataframe")

C3_Witness ==
    /\ pc = "done" /\ CallFailed /\ called /\ user_data # <<>>
    /\ Shows(RetryEl)

\* C4: the BMI entry of the profile is a tenth nearest to
\* weight / (height/100)^2, for every height in 50..250 and weight in 20..300;
\* height 180 and weight 80 give 24.7.
C4_BMIRoundedToOneDecimal ==
    user_data # <<>> =>
        LET t == user_data[5][2]
            h == widgets.height
            w == widgets.weight
            d == t * h * h - w * 100000
        IN  /\ user_data[5][1] = "BMI"
            /\ 2 * d <= h * h
            /\ 2 * (0 - d) <= h * h
            /\ (h = 180 /\ w = 80) => t = 247

C4_Witness ==
    /\ user_data # <<>> /\ widgets.height = 180 /\ widgets.weight = 80
    /\ user_data[5] = <<"BMI", 247>>

\* C5 as stated: after a successful call the page shows the table with 19
\* rows, the returned text and the disclaimer.
C5_Original ==
    CallSucceeded =>
        /\ \E i \in DOMAIN page :
              page[i].kind = "dataframe" /\ Len(page[i].rows) = 19
        /\ Shows(El("markdown", recommendations))
        /\ Shows(DisclaimerEl)

\* C5, amended: after a successful call the page shows the table with 20
\* rows, one per entry of the profile (the 19 form values and the BMI), the
\* returned text as it came, and the disclaimer.
C5_TwentyRows ==
    CallSucceeded =>
        /\ \E i \in DOMAIN page :
              /\ page[i].kind = "dataframe"
              /\ Len(page[i].rows) = 20
              /\ page[i].rows = user_data
              /\ page[i].rows[5][1] = "BMI"
        /\ recommendations \in ModelTexts
        /\ Shows(El("markdown", recommendations))
        /\ Shows(DisclaimerEl)

C5_Witness ==
    /\ CallSucceeded /\ Shows(SuccessEl) /\ Shows(DisclaimerEl)
    /\ Shows(Table(user_data)) /\ Len(user_data) = 20

\* C6 as stated: every optional field left empty, the three multi-choice
\* fields included, holds "None reported" or "None provided".
C6_Original ==
    user_data # <<>> =>
        /\ widgets.medical_conditions = "" =>
              ProfileValue("Medical Conditions") \in {"None reported", "None provided"}
        /\ widgets.medications = "" =>
              ProfileValue("Medications") \in {"None reported", "None provided"}
        /\ widgets.additional_info = "" =>
              ProfileValue("Additional Information") \in {"None reported", "None provided"}
        /\ widgets.activity_types = <<>> =>
              ProfileValue("Activity Types") \in {"None reported", "None provided"}
        /\ widgets.diet_preference = <<>> =>
              ProfileValue("Diet Preferences") \in {"None reported", "None provided"}
        /\ widgets.health_goals = <<>> =>
              ProfileValue("Health Goals") \in {"None reported", "None provided"}

\* C6, amended: an optional free-text field left empty holds its sentinel
\* ("None reported" for medical conditions and medications, "None provided"
\* for additional information) and is never empty; a multi-choice field with
\* nothing selected holds the empty string.
C6_TextSentinels ==
    user_data # <<>> =>
        /\ widgets.medical_conditions = "" =>
              ProfileValue("Medical Conditions") = "None reported"
        /\ widgets.medications = "" =>
              ProfileValue("Medications") = "None reported"
        /\ widgets.additional_info = "" =>
              ProfileValue("Additional Information") = "None provided"
        /\ ProfileValue("Medical Conditions") # ""
        /\ ProfileValue("Medications") # ""
        /\ ProfileValue("Additional Information") # ""
        /\ widgets.activity_types = <<>> => ProfileValue("Activity Types") = ""
        /\ widgets.diet_preference = <<>> => ProfileValue("Diet Preferences") = ""
        /\ widgets.health_goals = <<>> => ProfileValue("Health Goals") = ""

C6_Witness ==
    /\ user_data # <<>>
    /\ widgets.medications = "" /\ ProfileValue("Medications") = "None reported"
    /\ widgets.additional_info = ""
    /\ ProfileValue("Additional Information") = "None provided"
    /\ widgets.activity_types = <<>> /\ ProfileValue("Activity Types") = ""

\* C7: the calls made never exceed the submissions that passed validation:
\* they equal them, less the one of a run that has passed validation and not
\* yet called.  Within a run the profile is built, then the prompt is
\* formatted from it, then the one call is made, then the result or the error
\* is rendered; a failed call is followed by no other call of that run.
C7_OneCallPerSubmission ==
    /\ validated <= submissions
    /\ calls = validated - (IF pc \in {"build", "format", "call"} THEN 1 ELSE 0)
    /\ pc \in {"build", "format", "call"} => ~called
    /\ pc = "build" => (user_data = <<>> /\ prompt = "")
    /\ pc = "format" => (user_data # <<>> /\ prompt = "")
    /\ pc = "call" => (user_data # <<>> /\ prompt # "")
    /\ called => (user_data # <<>> /\ prompt = FormatPrompt(user_data))
    /\ pc \in {"render", "except"} => (called /\ page = FormPage)
    /\ (ShowsKind("success") \/ ShowsKind("dataframe") \/ Shows(RetryEl)) =>
          (called /\ pc = "done")

C7_Witness ==
    /\ pc = "done" /\ CallFailed /\ called
    /\ submissions = 1 /\ validated = 1 /\ calls = 1

\* C8: an exception of the call is caught: the run ends with the error banner
\* and the retry hint on the page, below the form, whose submit button can be
\* clicked again.  The run of a submission made after a failure starts with
\* fresh locals, makes its own call and, when that call succeeds, shows the
\* result as a first submission would.
C8_ErrorThenResubmit ==
    /\ CallFailed => pc \in {"except", "done"}
    /\ (pc = "done" /\ CallFailed) =>
          /\ Shows(ExceptionEl(excMsg)) /\ Shows(RetryEl)
          /\ ~ShowsKind("exception")
          /\ CanSubmit
    /\ (failedBefore /\ pc = "start") =>
          /\ page = <<>> /\ other = NoOther /\ ~configured /\ ~spinner
          /\ user_data = <<>> /\ prompt = "" /\ recommendations = ""
          /\ excMsg = "" /\ ~called
    /\ (failedBefore /\ submitted /\ pc = "done") =>
          /\ called /\ calls = validated /\ validated = submissions
          /\ ~CallFailed => page = FormPage \o ResultView(user_data, recommendations)

C8_Witness ==
    /\ failedBefore /\ pc = "done" /\ submitted /\ ~CallFailed
    /\ Shows(SuccessEl) /\ submissions = 2 /\ calls = 2

\* What the page shows: the form alone, or the form followed by the result
\* view (the success view or the error view).
Observable ==
    IF page = FormPage THEN "form-not-yet-submitted"
    ELSE IF \/ page = FormPage \o ResultView(user_data, recommendations)
            \/ page = FormPage \o ErrorView(excMsg)
         THEN "result-displayed"
    ELSE "other"

\* C9: with the credential present a run ends in one of two observable states,
\* form-not-yet-submitted when the run was a page load and result-displayed
\* when it was a submission; and the result is displayed by the last step of
\* its run, so that no step of the run leads back from it.
C9_TwoObservableStates ==
    ~KeyAbsent =>
        /\ pc = "done" =>
              /\ Observable \in {"form-not-yet-submitted", "result-displayed"}
              /\ (Observable = "result-displayed") <=> submitted
        /\ Observable = "result-displayed" => pc = "done"

C9_Witness ==
    /\ pc = "done" /\ submitted /\ Observable = "result-displayed"
    /\ Shows(SuccessEl)

\* The value C10 states for a multi-choice field.
StatedMultiChoice(selected, typed) ==
    Join(selected, ", ")
        \o (IF In("Other", selected) /\ typed # "" THEN ", " \o typed ELSE "")

\* C10: each multi-choice entry of the profile is the selected options joined
\* by ", ", followed by ", " and the free text exactly when "Other" is among
\* the options and the text is not empty; with "Other" not selected the
\* script's free text is empty.
C10_OtherAppended ==
    /\ ~In("Other", widgets.activity_types) => other.other_activity = ""
    /\ ~In("Other", widgets.diet_preference) => other.diet_other = ""
    /\ ~In("Other", widgets.health_goals) => other.goals_other = ""
    /\ user_data # <<>> =>
          /\ ProfileValue("Activity Types") =
                StatedMultiChoice(widgets.activity_types, widgets.other_activity_input)
          /\ ProfileValue("Diet Preferences") =
                StatedMultiChoice(widgets.diet_preference, widgets.diet_other_input)
          /\ ProfileValue("Health Goals") =
                StatedMultiChoice(widgets.health_goals, widgets.goals_other_input)

C10_Witness ==
    /\ user_data # <<>>
    /\ widgets.activity_types = <<"Walking", "Other">>
    /\ ProfileValue("Activity Types") = "Walking, Other, Hiking"
    /\ widgets.diet_preference = <<"Vegan">> /\ widgets.diet_other_input = "Halal"
    /\ ProfileValue("Diet Preferences") = "Vegan"

====
